---- MODULE Spec2Model ----
(***************************************************************************)
(* Model of the SDS local history (packages/sds/src/message_channel):      *)
(* MemLocalHistory, PersistentStorage and MessageSerializer.               *)
(*                                                                         *)
(* Conventions                                                             *)
(*   - an optional value is a sequence of length 0 (undefined) or 1;       *)
(*   - a string is the sequence of the collation ranks of its characters:  *)
(*     "_" is 0, the digits "0".."9" are 1..10, the letters "a".. are      *)
(*     11.., so that hex digit n is rank n + 1;                            *)
(*   - a byte array is a sequence of numbers 0..255.                       *)
(***************************************************************************)
EXTENDS Integers, Sequences, FiniteSets, TLC

\* ------------------------------------------------------------------ bounds
MaxId == 3          \* message ids "a", "b", "c"
MaxSizeOpt == 2     \* maxSize options 1..MaxSizeOpt
MaxEntries == 2     \* entries per findMissingDependencies call
MaxCount == 3       \* count argument of getRecentMessages, 0..MaxCount
MaxStored == 2      \* records of a stored array written by another program
MaxHistory == 2     \* causal-history entries of a message given to the codec
MaxOffered == 3     \* messages offered to a history, whole or in batches
BatchSizes == 0..2  \* messages per addMessages call
\* lamport timestamps: 9 and 10 differ in their number of decimal digits
Timestamps == {9, 10}

\* ------------------------------------------------------- optional values
None == <<>>
Some(x) == <<x>>
IsSome(o) == o /= <<>>
Val(o) == o[1]

\* ---------------------------------------------------------------- strings
UNDERSCORE == 0
DigitChar(d) == d + 1
HexChar(n) == n + 1
LetterChar(i) == 10 + i

RECURSIVE BigIntToString(_)
\* bigint.toString(): the decimal digits, most significant first
BigIntToString(n) ==
  IF n < 10 THEN <<DigitChar(n)>>
  ELSE BigIntToString(n \div 10) \o <<DigitChar(n % 10)>>

IsDecimal(s) == \A i \in 1..Len(s) : s[i] \in 1..10

RECURSIVE BigIntParse(_)
\* BigInt(string) of a decimal string ("" is 0n)
BigIntParse(s) ==
  IF s = <<>> THEN 0
  ELSE 10 * BigIntParse(SubSeq(s, 1, Len(s) - 1)) + (s[Len(s)] - 1)

RECURSIVE localeCompare(_, _)
\* String.prototype.localeCompare on strings that differ at the primary level
localeCompare(a, b) ==
  IF a = <<>> THEN (IF b = <<>> THEN 0 ELSE -1)
  ELSE IF b = <<>> THEN 1
  ELSE IF Head(a) < Head(b) THEN -1
  ELSE IF Head(a) > Head(b) THEN 1
  ELSE localeCompare(Tail(a), Tail(b))

RECURSIVE bytesToHex(_)
bytesToHex(bytes) ==
  IF bytes = <<>> THEN <<>>
  ELSE <<HexChar(Head(bytes) \div 16), HexChar(Head(bytes) % 16)>>
       \o bytesToHex(Tail(bytes))

IsHex(s) == Len(s) % 2 = 0 /\ \A i \in 1..Len(s) : s[i] \in 1..16

RECURSIVE hexToBytes(_)
\* defined on strings for which IsHex holds; the library throws on the others
hexToBytes(s) ==
  IF s = <<>> THEN <<>>
  ELSE <<(s[1] - 1) * 16 + (s[2] - 1)>> \o hexToBytes(SubSeq(s, 3, Len(s)))

\* --------------------------------------------------------------- messages
ChannelId == <<LetterChar(3)>>
SenderId == <<LetterChar(19)>>

\* new ContentMessage(...) with its nine arguments, in the constructor's order
ContentMessage(messageId, channelId, senderId, causalHistory, lamportTimestamp, bloomFilter, content, repairRequest, retrievalHint) ==
  [messageId |-> messageId, channelId |-> channelId, senderId |-> senderId,
   causalHistory |-> causalHistory, lamportTimestamp |-> lamportTimestamp,
   bloomFilter |-> bloomFilter, content |-> content,
   repairRequest |-> repairRequest, retrievalHint |-> retrievalHint]

\* a content message carries a lamport timestamp and a content
isContentMessage(message) ==
  IsSome(message.lamportTimestamp) /\ IsSome(message.content)

\* the sort key: "<timestamp>_<messageId>"
valueOf(message) ==
  BigIntToString(Val(message.lamportTimestamp)) \o <<UNDERSCORE>>
    \o message.messageId

\* ----------------------------------------------------------- the codec
\* MessageSerializer.toHex: undefined for an absent or zero-length array
toHex(data) ==
  IF ~IsSome(data) \/ Len(Val(data)) = 0 THEN None
  ELSE Some(bytesToHex(Val(data)))

\* (variant: an absent field is restored as a zero-length array)
fromHexOrEmpty(value) ==
  IF ~IsSome(value) \/ Val(value) = <<>> THEN Some(<<>>)
  ELSE Some(hexToBytes(Val(value)))

\* MessageSerializer.fromHex: undefined for an absent or empty string
\* (hexToBytes throws on a string that is not hex: see CanDeserialize)
fromHex(value) ==
  IF ~IsSome(value) \/ Val(value) = <<>> THEN None
  ELSE Some(hexToBytes(Val(value)))

\* a zero-length Uint8Array is truthy: only an absent hint gives undefined
serializeHistoryEntry(entry) ==
  [messageId |-> entry.messageId,
   retrievalHint |-> IF IsSome(entry.retrievalHint)
                     THEN Some(bytesToHex(Val(entry.retrievalHint)))
                     ELSE None]

\* an empty string is falsy: it gives undefined
deserializeHistoryEntry(entry) ==
  [messageId |-> entry.messageId,
   retrievalHint |-> IF IsSome(entry.retrievalHint) /\ Val(entry.retrievalHint) /= <<>>
                     THEN Some(hexToBytes(Val(entry.retrievalHint)))
                     ELSE None]

serializeContentMessage(message) ==
  [messageId |-> message.messageId,
   channelId |-> message.channelId,
   senderId |-> message.senderId,
   lamportTimestamp |-> BigIntToString(Val(message.lamportTimestamp)),
   causalHistory |-> [i \in 1..Len(message.causalHistory) |->
                        serializeHistoryEntry(message.causalHistory[i])],
   bloomFilter |-> toHex(message.bloomFilter),
   content |-> bytesToHex(Val(message.content)),
   retrievalHint |-> toHex(message.retrievalHint)]

\* the cases in which nothing in deserializeContentMessage throws
CanDeserialize(record) ==
  /\ IsHex(record.content)
  /\ IsDecimal(record.lamportTimestamp)
  /\ IsSome(record.bloomFilter) => IsHex(Val(record.bloomFilter))
  /\ IsSome(record.retrievalHint) => IsHex(Val(record.retrievalHint))
  /\ \A i \in 1..Len(record.causalHistory) :
       IsSome(record.causalHistory[i].retrievalHint)
         => IsHex(Val(record.causalHistory[i].retrievalHint))

\* Some(message), or None where the code returns undefined
deserializeContentMessage(record) ==
  IF ~CanDeserialize(record) THEN None
  ELSE Some(ContentMessage(
         record.messageId,
         record.channelId,
         record.senderId,
         [i \in 1..Len(record.causalHistory) |->
            deserializeHistoryEntry(record.causalHistory[i])],
         Some(BigIntParse(record.lamportTimestamp)),
         fromHex(record.bloomFilter),
         Some(hexToBytes(record.content)),
         <<>>,
         fromHex(record.retrievalHint)))

\* A stored text is modelled by what JSON.parse makes of it: "array" parses
\* to an array of elems, "object" parses to a value that is no array,
\* "invalid" does not parse, "empty" is the empty string.
\* JSON.stringify of an array of records (a key whose value is undefined
\* is left out: it stays None) and JSON.parse of such a text
JSONstringify(records) == [type |-> "array", elems |-> records]
JSONparse(raw) == raw.elems

InvalidText == [type |-> "invalid", elems |-> <<>>]
ObjectText == [type |-> "object", elems |-> <<>>]
EmptyText == [type |-> "empty", elems |-> <<>>]

\* ------------------------------------------------------- the key-value store
HISTORY_STORAGE_PREFIX == "waku:sds:history:"

\* (variant: the key does not depend on the channel)
StorageKeyPrefixOnly(channelId) == <<HISTORY_STORAGE_PREFIX, <<>>>>

\* the private constructor: storageKey = prefix + channelId
StorageKey(channelId) == <<HISTORY_STORAGE_PREFIX, channelId>>

PeerChannelId == <<LetterChar(4)>>

\* the file of the file-based Storage: join(basePath, prefix + ".json")
FilePath(storagePrefix) == <<".waku", storagePrefix, ".json">>

\* the keys of the key-value store and the paths of the file system
StorageKeys ==
  {StorageKey(ChannelId), StorageKey(PeerChannelId), FilePath(ChannelId)}

\* What a history is bound to: nothing (undefined), a PersistentStorage on a
\* key of the key-value store, or a file-based Storage on a path.
KeyValueStorage(channelId) == Some([kind |-> "kv", key |-> StorageKey(channelId)])
FileStorage(storagePrefix) == Some([kind |-> "file", key |-> FilePath(storagePrefix)])

\* A backend says which operations of the HistoryStorage throw; for the
\* file-based Storage getItem stands for readFileSync (failing otherwise than
\* by a missing file) and setItem for mkdirSync and writeFileSync.
Healthy ==
  [getItemThrows |-> FALSE, setItemThrows |-> FALSE, removeItemThrows |-> FALSE]
Backends ==
  [getItemThrows : BOOLEAN, setItemThrows : BOOLEAN, removeItemThrows : BOOLEAN]

\* (variant: the records are appended to the stored array)
PersistentStorageSaveAppend(be, st, storageKey, messages) ==
  [st EXCEPT ![storageKey] =
     Some(JSONstringify(
       (IF IsSome(@) THEN JSONparse(Val(@)) ELSE <<>>)
       \o [i \in 1..Len(messages) |-> serializeContentMessage(messages[i])]))]

\* (variant: a setItem that throws leaves the key without a value)
PersistentStorageSaveClearing(be, st, storageKey, messages) ==
  IF be.setItemThrows THEN [st EXCEPT ![storageKey] = None]
  ELSE [st EXCEPT ![storageKey] =
          Some(JSONstringify([i \in 1..Len(messages) |->
                                serializeContentMessage(messages[i])]))]

\* PersistentStorage.save: the store it leaves; a setItem that throws is
\* caught and logged
PersistentStorageSave(be, st, storageKey, messages) ==
  IF be.setItemThrows THEN st
  ELSE [st EXCEPT ![storageKey] =
          Some(JSONstringify([i \in 1..Len(messages) |->
                                serializeContentMessage(messages[i])]))]

\* (variant: one record that does not decode fails the whole array)
RECURSIVE DeserializeAllOrNone(_)
DeserializeAllOrNone(stored) ==
  IF \E i \in 1..Len(stored) : ~CanDeserialize(stored[i]) THEN <<>>
  ELSE IF stored = <<>> THEN <<>>
  ELSE deserializeContentMessage(Head(stored)) \o DeserializeAllOrNone(Tail(stored))

RECURSIVE DeserializeAll(_)
\* stored.map(deserializeContentMessage).filter(Boolean)
DeserializeAll(stored) ==
  IF stored = <<>> THEN <<>>
  ELSE deserializeContentMessage(Head(stored)) \o DeserializeAll(Tail(stored))

\* the catch block of load: removeItem outside any try
LoadFailed(be, st, storageKey) ==
  IF be.removeItemThrows
  THEN [messages |-> <<>>, store |-> st, threw |-> TRUE]
  ELSE [messages |-> <<>>, store |-> [st EXCEPT ![storageKey] = None],
        threw |-> FALSE]

\* (variant: a stored text that does not parse is left in the store)
PersistentStorageLoadKeeping(be, st, storageKey) ==
  LET raw == st[storageKey] IN
  IF ~be.getItemThrows /\ IsSome(raw) /\ Val(raw).type = "array"
  THEN [messages |-> DeserializeAll(JSONparse(Val(raw))), store |-> st,
        threw |-> FALSE]
  ELSE [messages |-> <<>>, store |-> st, threw |-> FALSE]

\* PersistentStorage.load: the messages it returns, the store it leaves and
\* whether it threw
PersistentStorageLoad(be, st, storageKey) ==
  LET raw == st[storageKey] IN
  IF be.getItemThrows THEN LoadFailed(be, st, storageKey)
  ELSE IF ~IsSome(raw) \/ Val(raw).type = "empty"
  THEN [messages |-> <<>>, store |-> st, threw |-> FALSE]
  ELSE IF Val(raw).type = "array"
  THEN [messages |-> DeserializeAll(JSONparse(Val(raw))), store |-> st,
        threw |-> FALSE]
  ELSE LoadFailed(be, st, storageKey)

\* (variant: create makes a backend even when there is no store at all)
PersistentStorageCreateAlways(channelId, passed, ambient) ==
  KeyValueStorage(channelId)

\* PersistentStorage.create(channelId, storage?): passed says that a store is
\* given, ambient that a global localStorage exists; undefined without both
PersistentStorageCreate(channelId, passed, ambient) ==
  IF passed \/ ambient THEN KeyValueStorage(channelId) ELSE None

\* the file-based Storage.save: the file system it leaves; a failing mkdirSync
\* or writeFileSync is caught and logged
FileStorageSave(be, fs, filePath, messages) ==
  IF be.setItemThrows THEN fs
  ELSE [fs EXCEPT ![filePath] =
          Some(JSONstringify([i \in 1..Len(messages) |->
                                serializeContentMessage(messages[i])]))]

\* (variant: a file that does not parse is deleted)
FileStorageLoadDeleting(be, fs, filePath) ==
  LET raw == fs[filePath] IN
  IF ~be.getItemThrows /\ IsSome(raw) /\ Val(raw).type = "array"
  THEN [messages |-> DeserializeAll(JSONparse(Val(raw))), store |-> fs,
        threw |-> FALSE]
  ELSE [messages |-> <<>>, store |-> [fs EXCEPT ![filePath] = None],
        threw |-> FALSE]

\* the file-based Storage.load: readFileSync throws on a missing file, and
\* every exception ends in the catch block, which returns []
FileStorageLoad(be, fs, filePath) ==
  LET raw == fs[filePath] IN
  IF ~be.getItemThrows /\ IsSome(raw) /\ Val(raw).type = "array"
  THEN [messages |-> DeserializeAll(JSONparse(Val(raw))), store |-> fs,
        threw |-> FALSE]
  ELSE [messages |-> <<>>, store |-> fs, threw |-> FALSE]

\* MemLocalHistory.save: this.storage?.save(this.items)
StorageSave(be, st, storage, messages) ==
  IF ~IsSome(storage) THEN st
  ELSE IF Val(storage).kind = "kv"
  THEN PersistentStorageSave(be, st, Val(storage).key, messages)
  ELSE FileStorageSave(be, st, Val(storage).key, messages)

\* (variant: a history without storage reads the key of the channel)
StorageLoadAlways(be, st, storage) ==
  IF ~IsSome(storage)
  THEN PersistentStorageLoad(be, st, StorageKey(ChannelId))
  ELSE IF Val(storage).kind = "kv"
  THEN PersistentStorageLoad(be, st, Val(storage).key)
  ELSE FileStorageLoad(be, st, Val(storage).key)

\* MemLocalHistory.load: this.storage?.load() ?? []
StorageLoad(be, st, storage) ==
  IF ~IsSome(storage) THEN [messages |-> <<>>, store |-> st, threw |-> FALSE]
  ELSE IF Val(storage).kind = "kv"
  THEN PersistentStorageLoad(be, st, Val(storage).key)
  ELSE FileStorageLoad(be, st, Val(storage).key)

\* ---------------------------------------------------------- MemLocalHistory
VARIABLES
  items,         \* MemLocalHistory.items
  messageIndex,  \* MemLocalHistory.messageIndex, a function on the indexed ids
  maxSize,       \* MemLocalHistory.maxSize
  storage,       \* MemLocalHistory.storage: what the history is bound to
  store,         \* the HistoryStorage: storage key -> optional stored text
  backend,       \* which operations of the HistoryStorage throw
  peer,          \* a second MemLocalHistory, of another channel, on the store
  ret,           \* the last call: its name, what it returned and, for the
                 \* constructor, the stored value it found
  manager        \* an RLNCredentialsManager, its calls in progress and the
                 \* contract it watches

vars ==
  <<items, messageIndex, maxSize, storage, store, backend, peer, ret, manager>>

\* The RLNCredentialsManager after its constructor. Credentials are named by
\* the treeIndex of their membership; a Merkle path (pathElements,
\* identityPathIndex) is named by the treeIndex it was computed for. The
\* fields after the first seven are not fields of the class: calls holds each
\* start call (where it stands, its decrypted credentials, the treeIndex its
\* updateMerkleProof read), updates the treeIndex of each updateMerkleProof
\* that a RootStored event started and that waits for getMerkleProof,
\* watchers the watchers installed in the contract, installed and created the
\* numbers of watchers installed and contracts created so far.
MaxStarts == 3
StartCalls == 1..MaxStarts
IdleCall == [pc |-> "idle", credentials |-> None, treeIndex |-> None]
RLNCredentialsManager ==
  [started |-> FALSE,
   starting |-> FALSE,
   contract |-> None,
   credentials |-> None,
   pathElements |-> None,
   identityPathIndex |-> None,
   unwatchRootStored |-> None,
   calls |-> [i \in StartCalls |-> IdleCall],
   updates |-> {},
   watchers |-> {},
   installed |-> 0,
   created |-> 0]

RECURSIVE rebuildIndexFrom(_, _)
rebuildIndexFrom(index, messages) ==
  IF messages = <<>> THEN index
  ELSE LET m == Head(messages) IN
       rebuildIndexFrom(
         [id \in DOMAIN index \cup {m.messageId} |->
            IF id = m.messageId THEN m ELSE index[id]],
         Tail(messages))

EmptyIndex == [id \in {} |-> None]

\* clear the index, then set every message of the sequence under its id
rebuildIndex(messages) == rebuildIndexFrom(EmptyIndex, messages)

\* (variant: the removed items stay in the index)
IndexDeleteNothing(index, removedItems) == index

\* messageIndex.delete for every removed item
IndexDelete(index, removedItems) ==
  [id \in DOMAIN index \ {removedItems[i].messageId : i \in 1..Len(removedItems)}
     |-> index[id]]

\* (variant: the sort leaves the messages in their order of arrival)
CompareNothing(a, b) == 0

\* the comparator of the sort in addMessages
Compare(a, b) == localeCompare(valueOf(a), valueOf(b))

\* one step of a stable sort: m goes after the elements that are not greater
SortInsert(sorted, m) ==
  LET k == Cardinality({i \in 1..Len(sorted) : Compare(sorted[i], m) <= 0})
  IN SubSeq(sorted, 1, k) \o <<m>> \o SubSeq(sorted, k + 1, Len(sorted))

RECURSIVE SortFrom(_, _)
SortFrom(sorted, rest) ==
  IF rest = <<>> THEN sorted
  ELSE SortFrom(SortInsert(sorted, Head(rest)), Tail(rest))

\* Array.prototype.sort (stable) with Compare
Sort(messages) == SortFrom(<<>>, messages)

\* (variant: uniqueness by the sort key, so that one id is kept once for
\* every timestamp it comes with)
uniqByValueOf(messages) ==
  LET F[i \in 0..Len(messages)] ==
        IF i = 0 THEN <<>>
        ELSE IF \A j \in 1..(i - 1) : valueOf(messages[j]) /= valueOf(messages[i])
             THEN Append(F[i - 1], messages[i]) ELSE F[i - 1]
  IN F[Len(messages)]

\* _.uniqBy(messages, "messageId"): the first occurrence of every id
uniqBy(messages) ==
  LET keep == {i \in 1..Len(messages) :
                 \A j \in 1..(i - 1) : messages[j].messageId /= messages[i].messageId}
      F[i \in 0..Len(messages)] ==
        IF i = 0 THEN <<>>
        ELSE IF i \in keep THEN Append(F[i - 1], messages[i]) ELSE F[i - 1]
  IN F[Len(messages)]

\* (variant: the number of items to remove is short by one)
NumItemsToRemoveOffByOne(length, max) ==
  IF length > max THEN length - max - 1 ELSE 0

\* (variant: the bound removes one item more than the excess)
NumItemsToRemoveOneMore(length, max) ==
  IF length > max THEN length - max + 1 ELSE 0

\* the number of items the bound removes (lines 96-97)
NumItemsToRemove(length, max) == IF length > max THEN length - max ELSE 0

\* validateMessage throws at the first message that is no content message
FirstInvalid(messages) ==
  LET bad == {i \in 1..Len(messages) : ~isContentMessage(messages[i])}
  IN IF bad = {} THEN 0 ELSE CHOOSE i \in bad : \A j \in bad : i <= j

\* A history h is [items, messageIndex, maxSize, storage] with the store and
\* the backend it works on; a call of addMessages
\* gives the history it leaves, whether it threw and at which message, the
\* items the bound removed and the number of duplicates uniqBy dropped.

\* (variant: a write that fails makes the call throw with nothing admitted)
admitUnlessWriteFails(h, messages) ==
  LET combinedItems == h.items \o messages
      unique == uniqBy(Sort(combinedItems))
      n == NumItemsToRemove(Len(unique), h.maxSize)
      removedItems == SubSeq(unique, 1, n)
      kept == SubSeq(unique, n + 1, Len(unique))
  IN IF h.backend.setItemThrows
     THEN [history |-> h, threw |-> TRUE, at |-> 0,
           removedItems |-> <<>>, numDuplicates |-> 0]
     ELSE [history |->
             [items |-> kept,
              messageIndex |-> IndexDelete(rebuildIndex(unique), removedItems),
              maxSize |-> h.maxSize,
              storage |-> h.storage,
              backend |-> h.backend,
              store |-> StorageSave(h.backend, h.store, h.storage, kept)],
           threw |-> FALSE,
           at |-> 0,
           removedItems |-> removedItems,
           numDuplicates |-> Len(combinedItems) - Len(unique)]

\* (variant: the call reads the store again and merges what it holds)
admitReloading(h, messages) ==
  LET combinedItems ==
        StorageLoad(h.backend, h.store, h.storage).messages \o h.items
          \o messages
      unique == uniqBy(Sort(combinedItems))
      n == NumItemsToRemove(Len(unique), h.maxSize)
      removedItems == SubSeq(unique, 1, n)
      kept == SubSeq(unique, n + 1, Len(unique))
  IN [history |->
        [items |-> kept,
         messageIndex |-> IndexDelete(rebuildIndex(unique), removedItems),
         maxSize |-> h.maxSize,
         storage |-> h.storage,
         backend |-> h.backend,
         store |-> StorageSave(h.backend, h.store, h.storage, kept)],
      threw |-> FALSE,
      at |-> 0,
      removedItems |-> removedItems,
      numDuplicates |-> Len(combinedItems) - Len(unique)]

\* lines 85-104: merge, sort, uniqBy, rebuildIndex, bound, save
admit(h, messages) ==
  LET combinedItems == h.items \o messages
      unique == uniqBy(Sort(combinedItems))
      n == NumItemsToRemove(Len(unique), h.maxSize)
      removedItems == SubSeq(unique, 1, n)
      kept == SubSeq(unique, n + 1, Len(unique))
  IN [history |->
        [items |-> kept,
         messageIndex |-> IndexDelete(rebuildIndex(unique), removedItems),
         maxSize |-> h.maxSize,
         storage |-> h.storage,
         backend |-> h.backend,
         store |-> StorageSave(h.backend, h.store, h.storage, kept)],
      threw |-> FALSE,
      at |-> 0,
      removedItems |-> removedItems,
      numDuplicates |-> Len(combinedItems) - Len(unique)]

\* (variant: each message is validated when its turn to be added comes)
addMessagesValidatingLate(h, messages) ==
  LET bad == FirstInvalid(messages) IN
  IF bad /= 0
  THEN [history |-> admit(h, SubSeq(messages, 1, bad - 1)).history,
        threw |-> TRUE, at |-> bad,
        removedItems |-> <<>>, numDuplicates |-> 0]
  ELSE admit(h, messages)

\* lines 78-105: every message is validated before anything is assigned
addMessages(h, messages) ==
  LET bad == FirstInvalid(messages) IN
  IF bad /= 0
  THEN [history |-> h, threw |-> TRUE, at |-> bad,
        removedItems |-> <<>>, numDuplicates |-> 0]
  ELSE admit(h, messages)

hasMessage(index, messageId) == messageId \in DOMAIN index

getMessage(index, messageId) ==
  IF messageId \in DOMAIN index THEN Some(index[messageId]) ELSE None

\* Array.prototype.slice(start) with one argument
slice(arr, start) ==
  LET from == IF start < 0
              THEN (IF Len(arr) + start < 0 THEN 0 ELSE Len(arr) + start)
              ELSE (IF start > Len(arr) THEN Len(arr) ELSE start)
  IN SubSeq(arr, from + 1, Len(arr))

getRecentMessages(its, count) == slice(its, -count)

\* An array the caller gets is [array, elems]: array says which array it is,
\* "this.items" for the array of the history, "copy" for a new one.

\* (variant: the array of the history itself is returned)
getAllMessagesSameArray(its) == [array |-> "this.items", elems |-> its]

\* [...this.items]: a new array with the same elements
getAllMessages(its) == [array |-> "copy", elems |-> its]

size(its) == Len(its)

\* (variant: an id is reported once)
findMissingDependenciesOnce(index, entries) ==
  LET missing == SelectSeq(entries, LAMBDA entry : entry.messageId \notin DOMAIN index)
      F[i \in 0..Len(missing)] ==
        IF i = 0 THEN <<>>
        ELSE IF \A j \in 1..(i - 1) : missing[j] /= missing[i]
             THEN Append(F[i - 1], missing[i]) ELSE F[i - 1]
  IN F[Len(missing)]

findMissingDependencies(index, entries) ==
  SelectSeq(entries, LAMBDA entry : ~hasMessage(index, entry.messageId))

\* ------------------------------------------------------------------ inputs
MessageIds == {<<LetterChar(i)>> : i \in 1..MaxId}
MaxSizes == 1..MaxSizeOpt

\* new ContentMessage(id, channelId, "sender", [], BigInt(timestamp),
\*                    bloomFilter, new Uint8Array([timestamp]), undefined)
createMessage(id, timestamp, bloomFilter) ==
  ContentMessage(id, ChannelId, SenderId, <<>>, Some(timestamp), bloomFilter,
                 Some(<<timestamp>>), <<>>, None)

\* content messages: every id at every timestamp without a bloom filter, and
\* the first id also with a zero-length and with a one-byte bloom filter
ContentMessages ==
  {createMessage(id, ts, None) : id \in MessageIds, ts \in Timestamps}
  \cup {createMessage(<<LetterChar(1)>>, 9, Some(<<>>)),
        createMessage(<<LetterChar(1)>>, 9, Some(<<171>>))}

\* a sync message (no content) and an ephemeral message (no lamport timestamp)
OtherMessages ==
  {ContentMessage(<<LetterChar(1)>>, ChannelId, SenderId, <<>>, Some(9), None, None, <<>>, None),
   ContentMessage(<<LetterChar(2)>>, ChannelId, SenderId, <<>>, None, None, Some(<<1>>), <<>>, None)}

Messages == ContentMessages \cup OtherMessages
Batches == UNION {[1..n -> Messages] : n \in BatchSizes}

HistoryEntries == {[messageId |-> id, retrievalHint |-> None] : id \in MessageIds}
EntryLists == UNION {[1..n -> HistoryEntries] : n \in 0..MaxEntries}
Counts == 0..MaxCount

\* ----------------------------------------------------------------- actions
\* (variant: a stored history of one message is not restored)
constructorSkippingOne(binding, be, st, max) ==
  LET loaded == StorageLoad(be, st, binding)
      messages == IF Len(loaded.messages) > 1 THEN loaded.messages ELSE <<>>
  IN [items |-> messages,
      messageIndex |-> rebuildIndex(messages),
      maxSize |-> max,
      storage |-> binding,
      backend |-> be,
      store |-> loaded.store,
      threw |-> loaded.threw]

\* (variant: the constructor saves what it has loaded)
constructorSaving(binding, be, st, max) ==
  LET loaded == StorageLoad(be, st, binding)
      messages == loaded.messages
  IN [items |-> messages,
      messageIndex |-> rebuildIndex(messages),
      maxSize |-> max,
      storage |-> binding,
      backend |-> be,
      store |-> StorageSave(be, loaded.store, binding, messages),
      threw |-> loaded.threw]

\* new MemLocalHistory({ storage, maxSize }) with the binding that the storage
\* option gives, on the store as it is; threw says that load threw, and then there is no instance
constructor(binding, be, st, max) ==
  LET loaded == StorageLoad(be, st, binding)
      messages == loaded.messages
  IN [items |-> messages,
      messageIndex |-> IF Len(messages) > 0 THEN rebuildIndex(messages)
                       ELSE EmptyIndex,
      maxSize |-> max,
      storage |-> binding,
      backend |-> be,
      store |-> loaded.store,
      threw |-> loaded.threw]

History == [items |-> items, messageIndex |-> messageIndex,
            maxSize |-> maxSize, storage |-> storage,
            backend |-> backend, store |-> store]

PeerHistory == [items |-> peer.items, messageIndex |-> peer.messageIndex,
                maxSize |-> peer.maxSize,
                storage |-> KeyValueStorage(PeerChannelId),
                backend |-> backend, store |-> store]

Becomes(h) ==
  /\ items' = h.items
  /\ messageIndex' = h.messageIndex
  /\ maxSize' = h.maxSize
  /\ storage' = h.storage
  /\ store' = h.store

PeerBecomes(h) ==
  /\ peer' = [items |-> h.items, messageIndex |-> h.messageIndex,
              maxSize |-> h.maxSize]
  /\ store' = h.store

\* the retained messages are not what the store holds under the key
Unsaved(h) ==
  /\ h.items /= <<>>
  /\ IsSome(h.storage)
  /\ h.store[Val(h.storage).key]
       /= Some(JSONstringify([i \in 1..Len(h.items) |->
                                serializeContentMessage(h.items[i])]))

\* the caller holds an instance unless the last constructor threw
Alive ==
  IF ret.op = "constructor" THEN ~ret.threw
  ELSE IF ret.op = "environment" THEN ret.alive
  ELSE TRUE

\* what the caller may do to an array: push a message, pop, reverse
ArrayMutations == {"push", "pop", "reverse"}
Mutated(arr, mutation) ==
  IF mutation = "push" THEN Append(arr, createMessage(<<LetterChar(1)>>, 9, None))
  ELSE IF mutation = "pop" THEN SubSeq(arr, 1, Len(arr) - 1)
  ELSE [i \in 1..Len(arr) |-> arr[Len(arr) + 1 - i]]

Init ==
  /\ manager = RLNCredentialsManager
  /\ store = [k \in StorageKeys |-> None]
  /\ backend = Healthy
  /\ storage = KeyValueStorage(ChannelId)
  /\ \E max \in MaxSizes :
       LET h == constructor(storage, backend, store, max)
           p == constructor(KeyValueStorage(PeerChannelId), backend, store,
                            MaxSizeOpt) IN
         /\ items = h.items
         /\ messageIndex = h.messageIndex
         /\ maxSize = h.maxSize
         /\ peer = [items |-> p.items, messageIndex |-> p.messageIndex,
                    maxSize |-> p.maxSize]
  /\ ret = [op |-> "constructor", threw |-> FALSE, raw |-> None,
            option |-> "instance", ambient |-> FALSE]

\* the instance is dropped and a new one is constructed on the same store
Construct(max) ==
  LET h == constructor(KeyValueStorage(ChannelId), backend, store, max) IN
    /\ Becomes(h)
    /\ ret' = [op |-> "constructor", threw |-> h.threw,
               raw |-> store[StorageKey(ChannelId)],
               option |-> "instance", ambient |-> FALSE]
    /\ UNCHANGED <<manager, backend, peer>>

\* The storage option of the constructor: left out, a channel id (the
\* constructor calls PersistentStorage.create(channelId), with no store), or
\* an instance made by PersistentStorage.create(channelId, store).
StorageOptions == {"none", "channelId", "instance"}

StorageOption(option, ambient) ==
  IF option = "instance" THEN PersistentStorageCreate(ChannelId, TRUE, ambient)
  ELSE IF option = "channelId"
  THEN PersistentStorageCreate(ChannelId, FALSE, ambient)
  ELSE None

\* new MemLocalHistory({ storage: option, maxSize }); the store is the global
\* localStorage where that exists
ConstructWith(option, ambient, max) ==
  LET h == constructor(StorageOption(option, ambient), backend, store, max) IN
    /\ Becomes(h)
    /\ ret' = [op |-> "constructor", threw |-> h.threw,
               raw |-> store[StorageKey(ChannelId)],
               option |-> option, ambient |-> ambient]
    /\ UNCHANGED <<manager, backend, peer>>

AddMessages(messages) ==
  LET call == addMessages(History, messages) IN
    /\ Alive
    /\ Becomes(call.history)
    /\ ret' = [op |-> "addMessages", threw |-> call.threw, at |-> call.at,
               removedItems |-> call.removedItems,
               numDuplicates |-> call.numDuplicates,
               unsaved |-> Unsaved(History)]
    /\ UNCHANGED <<manager, backend, peer>>

\* addMessages on the history of the other channel
PeerAddMessages(messages) ==
  LET call == addMessages(PeerHistory, messages) IN
    /\ PeerBecomes(call.history)
    /\ ret' = [op |-> "peer.addMessages", threw |-> call.threw]
    /\ UNCHANGED <<manager, items, messageIndex, maxSize, storage, backend>>

\* the environment: the backend starts or stops failing
BackendBecomes(be) ==
  /\ backend' = be
  /\ ret' = [op |-> "environment", alive |-> Alive]
  /\ UNCHANGED <<manager, items, messageIndex, maxSize, storage, store, peer>>

\* the environment: another program writes a text under the key
ExternalSetItem(text) ==
  /\ store' = [store EXCEPT ![StorageKey(ChannelId)] = Some(text)]
  /\ ret' = [op |-> "environment", alive |-> Alive]
  /\ UNCHANGED <<manager, items, messageIndex, maxSize, storage, backend, peer>>

\* The queries leave the history as it is; what they return is given by the
\* operators size, hasMessage, getMessage, getRecentMessages, getAllMessages
\* and findMissingDependencies applied to the state the call is made in.
Size ==
  /\ Alive
  /\ ret' = [op |-> "size"]
  /\ UNCHANGED <<manager, items, messageIndex, maxSize, storage, store, backend, peer>>

HasMessage ==
  /\ Alive
  /\ ret' = [op |-> "hasMessage"]
  /\ UNCHANGED <<manager, items, messageIndex, maxSize, storage, store, backend, peer>>

GetMessage ==
  /\ Alive
  /\ ret' = [op |-> "getMessage"]
  /\ UNCHANGED <<manager, items, messageIndex, maxSize, storage, store, backend, peer>>

\* (variant: getRecentMessages takes the messages out with splice)
GetRecentMessagesSplicing ==
  /\ Alive
  /\ ret' = [op |-> "getRecentMessages"]
  /\ \E count \in Counts :
       items' = SubSeq(items, 1,
                       IF count > Len(items) THEN 0 ELSE Len(items) - count)
  /\ UNCHANGED <<manager, messageIndex, maxSize, storage, store, backend, peer>>

GetRecentMessages ==
  /\ Alive
  /\ ret' = [op |-> "getRecentMessages"]
  /\ UNCHANGED <<manager, items, messageIndex, maxSize, storage, store, backend, peer>>

GetAllMessages ==
  /\ Alive
  /\ ret' = [op |-> "getAllMessages", result |-> getAllMessages(items)]
  /\ UNCHANGED <<manager, items, messageIndex, maxSize, storage, store, backend, peer>>

FindMissingDependencies ==
  /\ Alive
  /\ ret' = [op |-> "findMissingDependencies"]
  /\ UNCHANGED <<manager, items, messageIndex, maxSize, storage, store, backend, peer>>

\* the caller changes the array that getAllMessages returned: the change
\* reaches this.items exactly when that array is this.items
CallerMutates(mutation) ==
  /\ ret.op \in {"getAllMessages", "caller"}
  /\ mutation = "push" => Len(ret.result.elems) < MaxCount
  /\ mutation = "pop" => Len(ret.result.elems) > 0
  /\ ret' = [op |-> "caller",
             result |-> [ret.result EXCEPT !.elems = Mutated(@, mutation)]]
  /\ items' = IF ret.result.array = "this.items"
              THEN Mutated(items, mutation) ELSE items
  /\ UNCHANGED <<manager, messageIndex, maxSize, storage, store, backend, peer>>

Next ==
  \/ \E max \in MaxSizes : Construct(max)
  \/ \E messages \in Batches : AddMessages(messages)
  \/ Size
  \/ HasMessage
  \/ GetMessage
  \/ GetRecentMessages
  \/ GetAllMessages
  \/ FindMissingDependencies

Spec == Init /\ [][Next]_vars

\* ------------------------------------------- a store that fails or is corrupt
\* records that do not decode: a content that is no hex string, a lamport
\* timestamp that is no number
BadContentRecord ==
  [serializeContentMessage(createMessage(<<LetterChar(3)>>, 9, None))
     EXCEPT !.content = <<HexChar(10)>>]
BadTimestampRecord ==
  [serializeContentMessage(createMessage(<<LetterChar(1)>>, 10, None))
     EXCEPT !.lamportTimestamp = <<LetterChar(24)>>]
BadRecords == {BadContentRecord, BadTimestampRecord}
GoodRecords ==
  {serializeContentMessage(createMessage(<<LetterChar(2)>>, 10, None)),
   serializeContentMessage(createMessage(<<LetterChar(1)>>, 9, None))}

ForeignArrays ==
  UNION {[1..n -> GoodRecords \cup BadRecords] : n \in 1..MaxStored}
ForeignTexts ==
  {InvalidText, ObjectText, EmptyText}
    \cup {JSONstringify(records) : records \in ForeignArrays}

StoreMessages ==
  {createMessage(<<LetterChar(1)>>, 9, None),
   createMessage(<<LetterChar(2)>>, 10, None),
   createMessage(<<LetterChar(3)>>, 9, None)}
StoreBatchSizes == 0..1  \* messages per addMessages call on this store
StoreBatches == UNION {[1..n -> StoreMessages] : n \in StoreBatchSizes}

NextStore ==
  \/ \E max \in MaxSizes : Construct(max)
  \/ \E messages \in StoreBatches : AddMessages(messages)
  \/ \E be \in Backends : BackendBecomes(be)
  \/ \E text \in ForeignTexts : ExternalSetItem(text)

SpecStore == Init /\ [][NextStore]_vars

\* ------------------------------------------- two channels on one shared store
\* the two histories are constructed on the empty store; their addMessages
\* calls interleave in every order (each call runs to its end: the code is
\* synchronous)
ChannelBatches == UNION {[1..n -> StoreMessages] : n \in BatchSizes}

NextChannels ==
  \/ \E messages \in ChannelBatches : AddMessages(messages)
  \/ \E messages \in ChannelBatches : PeerAddMessages(messages)

SpecChannels == Init /\ [][NextChannels]_vars

\* ------------------------------------------- two instances on one channel
\* the second instance, bound to the same key of the same store
TwinHistory == [PeerHistory EXCEPT !.storage = KeyValueStorage(ChannelId)]

InitTwins ==
  /\ manager = RLNCredentialsManager
  /\ store = [k \in StorageKeys |-> None]
  /\ backend = Healthy
  /\ storage = KeyValueStorage(ChannelId)
  /\ \E max \in MaxSizes :
       LET h == constructor(storage, backend, store, max)
           t == constructor(storage, backend, store, MaxSizeOpt) IN
         /\ items = h.items
         /\ messageIndex = h.messageIndex
         /\ maxSize = h.maxSize
         /\ peer = [items |-> t.items, messageIndex |-> t.messageIndex,
                    maxSize |-> t.maxSize]
  /\ ret = [op |-> "constructor", threw |-> FALSE, raw |-> None,
            option |-> "instance", ambient |-> FALSE]

\* the second instance is dropped and constructed again on the store
TwinConstruct(max) ==
  LET t == constructor(KeyValueStorage(ChannelId), backend, store, max) IN
    /\ PeerBecomes(t)
    /\ ret' = [op |-> "twin.constructor", threw |-> t.threw]
    /\ UNCHANGED <<manager, items, messageIndex, maxSize, storage, backend>>

TwinAddMessages(messages) ==
  LET call == addMessages(TwinHistory, messages) IN
    /\ PeerBecomes(call.history)
    /\ ret' = [op |-> "twin.addMessages", threw |-> call.threw]
    /\ UNCHANGED <<manager, items, messageIndex, maxSize, storage, backend>>

NextTwins ==
  \/ \E messages \in ChannelBatches : AddMessages(messages)
  \/ \E messages \in ChannelBatches : TwinAddMessages(messages)
  \/ \E max \in MaxSizes : TwinConstruct(max)

SpecTwins == InitTwins /\ [][NextTwins]_vars

\* ------------------------------------------------------------- eviction
\* one instance without storage, with the messages the bound has removed
\* from it so far
EvictionMessages ==
  {createMessage(<<LetterChar(i)>>, timestamp, None) :
     i \in 1..MaxId, timestamp \in Timestamps}
EvictionBatches == UNION {[1..n -> EvictionMessages] : n \in BatchSizes}

InitEviction ==
  /\ manager = RLNCredentialsManager
  /\ \E max \in MaxSizes :
       LET h == constructor(None, Healthy, [k \in StorageKeys |-> None], max) IN
         /\ items = h.items
         /\ messageIndex = h.messageIndex
         /\ maxSize = h.maxSize
  /\ storage = None
  /\ store = [k \in StorageKeys |-> None]
  /\ backend = Healthy
  /\ peer = [items |-> <<>>, messageIndex |-> EmptyIndex, maxSize |-> 1]
  /\ ret = [op |-> "constructor", evicted |-> {}]

AddMessagesEvicting(messages) ==
  LET call == addMessages(History, messages) IN
    /\ Becomes(call.history)
    /\ ret' = [op |-> "addMessages",
               evicted |-> ret.evicted
                 \cup {call.removedItems[i] : i \in 1..Len(call.removedItems)}]
    /\ UNCHANGED <<manager, backend, peer>>

NextEviction == \E messages \in EvictionBatches : AddMessagesEvicting(messages)

SpecEviction == InitEviction /\ [][NextEviction]_vars

\* ================================================================ rln: Proof
\* proof<128> | root<32> | external_nullifier<32> | share_x<32> | share_y<32>
\* | nullifier<32>
proofOffset == 128
rootOffset == proofOffset + 32
externalNullifierOffset == rootOffset + 32
shareXOffset == externalNullifierOffset + 32
shareYOffset == shareXOffset + 32
nullifierOffset == shareYOffset + 32

\* Uint8Array.subarray(begin, end), for 0 <= begin <= end
subarray(bytes, begin, end) ==
  SubSeq(bytes, begin + 1, IF end > Len(bytes) THEN Len(bytes) ELSE end)

\* BytesUtils.concatenate: the arrays one after the other
RECURSIVE concatenate(_)
concatenate(arrays) ==
  IF arrays = <<>> THEN <<>> ELSE Head(arrays) \o concatenate(Tail(arrays))

\* new Proof(proofBytes, epoch, rlnIdentifier): the object, or the error thrown
ProofConstructor(proofBytes, epoch, rlnIdentifier) ==
  IF Len(proofBytes) < nullifierOffset THEN [threw |-> "invalid proof"]
  ELSE IF Len(epoch) # 32 THEN [threw |-> "invalid epoch"]
  ELSE IF Len(rlnIdentifier) # 32 THEN [threw |-> "invalid rlnIdentifier"]
  ELSE [threw |-> "",
        proof |-> subarray(proofBytes, 0, proofOffset),
        merkleRoot |-> subarray(proofBytes, proofOffset, rootOffset),
        externalNullifier |->
          subarray(proofBytes, rootOffset, externalNullifierOffset),
        shareX |-> subarray(proofBytes, externalNullifierOffset, shareXOffset),
        shareY |-> subarray(proofBytes, shareXOffset, shareYOffset),
        nullifier |-> subarray(proofBytes, shareYOffset, nullifierOffset),
        epoch |-> epoch,
        rlnIdentifier |-> rlnIdentifier]

\* (variant: the two shares are written in the other order)
proofToBytesSharesSwapped(p) ==
  concatenate(<<p.proof, p.merkleRoot, p.externalNullifier, p.shareY,
                p.shareX, p.nullifier>>)

proofToBytes(p) ==
  concatenate(<<p.proof, p.merkleRoot, p.externalNullifier, p.shareX,
                p.shareY, p.nullifier>>)

\* inputs: byte arrays one byte short of the six fields up to MaxExtra bytes
\* longer, filled with three patterns; epochs and identifiers of 31..33 bytes
MaxExtra == 2
ProofBytesInputs ==
  {[i \in 1..n |-> (i * step) % 256] :
     n \in (nullifierOffset - 1)..(nullifierOffset + MaxExtra),
     step \in {1, 7, 11}}
FieldInputs == {[i \in 1..n |-> 1] : n \in 31..33}

InitProof ==
  /\ manager = RLNCredentialsManager
  /\ items = <<>>
  /\ messageIndex = EmptyIndex
  /\ maxSize = 1
  /\ storage = None
  /\ store = [k \in StorageKeys |-> None]
  /\ backend = Healthy
  /\ peer = [items |-> <<>>, messageIndex |-> EmptyIndex, maxSize |-> 1]
  /\ \E proofBytes \in ProofBytesInputs, epoch \in FieldInputs,
        rlnIdentifier \in FieldInputs :
       ret = [op |-> "input", proofBytes |-> proofBytes, epoch |-> epoch,
              rlnIdentifier |-> rlnIdentifier]

\* parsedProof = new Proof(proofBytes, epoch, rlnIdentifier)
NewProof ==
  /\ ret.op = "input"
  /\ ret' = [op |-> "Proof", proofBytes |-> ret.proofBytes,
             epoch |-> ret.epoch, rlnIdentifier |-> ret.rlnIdentifier,
             parsedProof |-> ProofConstructor(ret.proofBytes, ret.epoch,
                                              ret.rlnIdentifier)]
  /\ UNCHANGED <<manager, items, messageIndex, maxSize, storage, store, backend, peer>>

\* reconstructedBytes = proofToBytes(parsedProof)
ProofToBytes ==
  /\ ret.op = "Proof"
  /\ ret.parsedProof.threw = ""
  /\ ret' = [op |-> "proofToBytes", proofBytes |-> ret.proofBytes,
             parsedProof |-> ret.parsedProof,
             reconstructedBytes |-> proofToBytes(ret.parsedProof)]
  /\ UNCHANGED <<manager, items, messageIndex, maxSize, storage, store, backend, peer>>

NextProof ==
  \/ NewProof
  \/ ProofToBytes

SpecProof == InitProof /\ [][NextProof]_vars

\* ===================================================== rln: generateRLNProof
\* A number of the program is [nan, value]: NaN, or the integer value.
\* Every comparison with NaN is false.
Number(value) == [nan |-> FALSE, value |-> value]
NaN == [nan |-> TRUE, value |-> 0]
LessThan(a, b) == ~a.nan /\ ~b.nan /\ a.value < b.value
GreaterThan(a, b) == ~a.nan /\ ~b.nan /\ a.value > b.value
GreaterOrEqual(a, b) == ~a.nan /\ ~b.nan /\ a.value >= b.value

MERKLE_TREE_DEPTH == 20
\* RATE_LIMIT_PARAMS of contract/constants.ts
MIN_RATE == 20
MAX_RATE == 600

\* epochIntToBytes writes into a new Uint8Array(32); dateToEpochBytes
\* returns that array
dateToEpochBytesLength == 32

\* What the code between the checks and calculateWitness and the two
\* collaborators may do: the conversions of the wasm module may throw,
\* calculateWitness may reject, the proof generator may throw.
Collaborators ==
  {"works", "conversion throws", "calculateWitness rejects",
   "generateRLNProofWithWitness throws"}

\* generateRLNProof: the error raised ("" for none) and the number of calls
\* of witnessCalculator.calculateWitness and zkRLN.generateRLNProofWithWitness
generateRLNProof(args, collaborators) ==
  LET raised(message) ==
        [threw |-> message, calculateWitness |-> 0,
         generateRLNProofWithWitness |-> 0]
  IN IF dateToEpochBytesLength # 32 THEN raised("Epoch must be 32 bytes")
     ELSE IF args.idSecretHash # 32
     THEN raised("ID secret hash must be 32 bytes")
     ELSE IF args.pathElements # MERKLE_TREE_DEPTH
     THEN raised("Path elements must be 20 bytes")
     ELSE IF args.identityPathIndex # MERKLE_TREE_DEPTH
     THEN raised("Identity path index must be 20 bytes")
     ELSE IF \/ LessThan(args.rateLimit, Number(MIN_RATE))
             \/ GreaterThan(args.rateLimit, Number(MAX_RATE))
     THEN raised("Rate limit must be between 20 and 600")
     ELSE IF \/ LessThan(args.messageId, Number(0))
             \/ GreaterOrEqual(args.messageId, args.rateLimit)
     THEN raised("messageId must be an integer between 0 and rateLimit - 1")
     ELSE IF collaborators = "conversion throws" THEN raised("conversion")
     ELSE IF collaborators = "calculateWitness rejects"
     THEN [threw |-> "calculateWitness", calculateWitness |-> 1,
           generateRLNProofWithWitness |-> 0]
     ELSE IF collaborators = "generateRLNProofWithWitness throws"
     THEN [threw |-> "generateRLNProofWithWitness", calculateWitness |-> 1,
           generateRLNProofWithWitness |-> 1]
     ELSE [threw |-> "", calculateWitness |-> 1,
           generateRLNProofWithWitness |-> 1]

\* arguments: the lengths of idSecretHash, pathElements and
\* identityPathIndex, and the numbers rateLimit and messageId
Lengths32 == 31..33
DepthLengths == (MERKLE_TREE_DEPTH - 1)..(MERKLE_TREE_DEPTH + 1)
RateLimits ==
  {Number(MIN_RATE - 1), Number(MIN_RATE), Number(MAX_RATE),
   Number(MAX_RATE + 1), NaN}
MessageIdInputs ==
  {Number(0 - 1), Number(0), Number(MIN_RATE - 1), Number(MIN_RATE),
   Number(MAX_RATE), NaN}
ProofArguments ==
  [idSecretHash : Lengths32, pathElements : DepthLengths,
   identityPathIndex : DepthLengths, rateLimit : RateLimits,
   messageId : MessageIdInputs]

InitRLNProof ==
  /\ manager = RLNCredentialsManager
  /\ items = <<>>
  /\ messageIndex = EmptyIndex
  /\ maxSize = 1
  /\ storage = None
  /\ store = [k \in StorageKeys |-> None]
  /\ backend = Healthy
  /\ peer = [items |-> <<>>, messageIndex |-> EmptyIndex, maxSize |-> 1]
  /\ \E args \in ProofArguments : ret = [op |-> "arguments", args |-> args]

GenerateRLNProof(collaborators) ==
  /\ ret.op = "arguments"
  /\ ret' = [op |-> "generateRLNProof", args |-> ret.args,
             result |-> generateRLNProof(ret.args, collaborators)]
  /\ UNCHANGED <<manager, items, messageIndex, maxSize, storage, store, backend, peer>>

NextRLNProof == \E collaborators \in Collaborators : GenerateRLNProof(collaborators)

SpecRLNProof == InitRLNProof /\ [][NextRLNProof]_vars

\* ================================================ rln: RLNCredentialsManager
\* An async method runs from one await to the next without interruption; an
\* action is one such stretch. What an awaited collaborator answers is an
\* input: ok says whether its promise resolves or rejects.
TreeIndices == {1, 2}
CredentialsInputs == {None} \cup {Some(treeIndex) : treeIndex \in TreeIndices}

\* the awaits of start, in order
Awaits ==
  {"decryptCredentialsIfNeeded", "determineStartOptions",
   "RLNBaseContract.create", "getMerkleProof", "watchRootStoredEvent"}

\* (variant: start has no finally block)
startRejectsStillStarting(m, i) ==
  [m EXCEPT !.calls[i].pc = "rejected"]

\* catch (rethrow) and finally of start: lines 164-169
startRejects(m, i) ==
  [m EXCEPT !.starting = FALSE, !.calls[i].pc = "rejected"]

\* lines 162-163 and 168
startResolves(m, i) ==
  [m EXCEPT !.started = TRUE, !.starting = FALSE, !.calls[i].pc = "resolved"]

\* (variant: the guard of start looks at started only)
startCalledUnlessStarted(m, i, credentials) ==
  IF m.started THEN [m EXCEPT !.calls[i].pc = "returned"]
  ELSE [m EXCEPT !.starting = TRUE,
                 !.calls[i] = [pc |-> "decryptCredentialsIfNeeded",
                               credentials |-> credentials,
                               treeIndex |-> None]]

\* lines 120-133: the guard, starting = true, up to the first await
startCalled(m, i, credentials) ==
  IF m.started \/ m.starting THEN [m EXCEPT !.calls[i].pc = "returned"]
  ELSE [m EXCEPT !.starting = TRUE,
                 !.calls[i] = [pc |-> "decryptCredentialsIfNeeded",
                               credentials |-> credentials,
                               treeIndex |-> None]]

\* lines 130-140
afterDecryptCredentialsIfNeeded(m, i, ok) ==
  IF ~ok THEN startRejects(m, i)
  ELSE [m EXCEPT !.calls[i].pc = "determineStartOptions"]

\* lines 139-155: this.credentials = credentials, then the contract is asked for
afterDetermineStartOptions(m, i, ok) ==
  IF ~ok THEN startRejects(m, i)
  ELSE [m EXCEPT !.credentials = m.calls[i].credentials,
                 !.calls[i].pc = "RLNBaseContract.create"]

\* lines 151-163 and 320-331: this.contract is set; with credentials,
\* updateMerkleProof reads their treeIndex and asks for the proof
afterCreate(m, i, ok) ==
  IF ~ok THEN startRejects(m, i)
  ELSE LET made == [m EXCEPT !.contract = Some(m.created + 1),
                             !.created = @ + 1] IN
       IF IsSome(made.credentials)
       THEN [made EXCEPT !.calls[i].pc = "getMerkleProof",
                         !.calls[i].treeIndex = made.credentials]
       ELSE startResolves(made, i)

\* lines 384-390
stopWatchingRootStored(m) ==
  IF IsSome(m.unwatchRootStored)
  THEN [m EXCEPT !.watchers = @ \ {Val(m.unwatchRootStored)},
                 !.unwatchRootStored = None]
  ELSE m

\* lines 331-349, 159 and 359-378: the path is stored for the treeIndex that
\* was read before the await, then the watcher is asked for
afterGetMerkleProof(m, i, ok) ==
  IF ~ok THEN startRejects(m, i)
  ELSE LET stored == [m EXCEPT !.pathElements = m.calls[i].treeIndex,
                               !.identityPathIndex = m.calls[i].treeIndex]
       IN IF ~IsSome(stored.contract) THEN startResolves(stored, i)
          ELSE [stopWatchingRootStored(stored) EXCEPT
                  !.calls[i].pc = "watchRootStoredEvent"]

\* lines 370-378 and 162-163: the watcher is installed and kept
afterWatchRootStoredEvent(m, i, ok) ==
  IF ~ok THEN startRejects(m, i)
  ELSE startResolves([m EXCEPT !.watchers = @ \cup {m.installed + 1},
                               !.installed = @ + 1,
                               !.unwatchRootStored = Some(m.installed + 1)],
                     i)

\* lines 205-213: this.credentials = await this.keystore?.readCredential(..)
useCredentials(m, credentials) == [m EXCEPT !.credentials = credentials]

\* lines 320-331, called by the watcher: nothing without contract or
\* credentials, else the treeIndex is read and the proof asked for
updateMerkleProofCalled(m) ==
  IF ~IsSome(m.contract) \/ ~IsSome(m.credentials) THEN m
  ELSE [m EXCEPT !.updates = @ \cup {Val(m.credentials)}]

\* lines 331-353 and 372-377: the path is stored, or the error is logged
afterUpdateGetMerkleProof(m, treeIndex, ok) ==
  IF ~ok THEN [m EXCEPT !.updates = @ \ {treeIndex}]
  ELSE [m EXCEPT !.updates = @ \ {treeIndex},
                 !.pathElements = Some(treeIndex),
                 !.identityPathIndex = Some(treeIndex)]

InitManager ==
  /\ manager = RLNCredentialsManager
  /\ items = <<>>
  /\ messageIndex = EmptyIndex
  /\ maxSize = 1
  /\ storage = None
  /\ store = [k \in StorageKeys |-> None]
  /\ backend = Healthy
  /\ peer = [items |-> <<>>, messageIndex |-> EmptyIndex, maxSize |-> 1]
  /\ ret = [op |-> "constructor"]

ManagerBecomes(m, op) ==
  /\ manager' = m
  /\ ret' = [op |-> op]
  /\ UNCHANGED <<items, messageIndex, maxSize, storage, store, backend, peer>>

\* the i-th call of start, with or without credentials in its options
Start(i, credentials) ==
  /\ manager.calls[i].pc = "idle"
  /\ \A j \in StartCalls : j < i => manager.calls[j].pc # "idle"
  /\ ManagerBecomes(startCalled(manager, i, credentials), "start")

\* an await of the i-th call of start resolves or rejects
StartContinues(i, ok) ==
  LET pc == manager.calls[i].pc IN
    /\ pc \in Awaits
    /\ ManagerBecomes(
         IF pc = "decryptCredentialsIfNeeded"
         THEN afterDecryptCredentialsIfNeeded(manager, i, ok)
         ELSE IF pc = "determineStartOptions"
         THEN afterDetermineStartOptions(manager, i, ok)
         ELSE IF pc = "RLNBaseContract.create" THEN afterCreate(manager, i, ok)
         ELSE IF pc = "getMerkleProof" THEN afterGetMerkleProof(manager, i, ok)
         ELSE afterWatchRootStoredEvent(manager, i, ok),
         "start")

\* a call of useCredentials whose readCredential gave these credentials
UseCredentials(credentials) ==
  ManagerBecomes(useCredentials(manager, credentials), "useCredentials")

\* the contract stores a root and an installed watcher calls back
RootStored ==
  /\ manager.watchers # {}
  /\ ManagerBecomes(updateMerkleProofCalled(manager), "RootStored")

\* getMerkleProof answers an updateMerkleProof that a watcher started
UpdateContinues(treeIndex, ok) ==
  /\ treeIndex \in manager.updates
  /\ ManagerBecomes(afterUpdateGetMerkleProof(manager, treeIndex, ok),
                    "updateMerkleProof")

NextManager ==
  \/ \E i \in StartCalls, credentials \in CredentialsInputs :
       Start(i, credentials)
  \/ \E i \in StartCalls, ok \in BOOLEAN : StartContinues(i, ok)
  \/ \E credentials \in CredentialsInputs : UseCredentials(credentials)
  \/ RootStored
  \/ \E treeIndex \in TreeIndices, ok \in BOOLEAN :
       UpdateContinues(treeIndex, ok)

SpecManager == InitManager /\ [][NextManager]_vars

\* ------------------------------------------------------ the storage option
Failing ==
  [getItemThrows |-> TRUE, setItemThrows |-> TRUE, removeItemThrows |-> TRUE]

NextOptions ==
  \/ \E option \in StorageOptions, ambient \in BOOLEAN, max \in MaxSizes :
       ConstructWith(option, ambient, max)
  \/ \E messages \in StoreBatches : AddMessages(messages)
  \/ \E be \in {Healthy, Failing} : BackendBecomes(be)
  \/ \E text \in {InvalidText, EmptyText} : ExternalSetItem(text)

SpecOptions == Init /\ [][NextOptions]_vars

\* ---------------------------------------------------------------- queries
\* the queries on a history whose store may be corrupt and whose backend may
\* fail, and a caller that changes the array it got
NextQueries ==
  \/ \E max \in MaxSizes : Construct(max)
  \/ \E messages \in StoreBatches : AddMessages(messages)
  \/ \E be \in {Healthy, Failing} : BackendBecomes(be)
  \/ ExternalSetItem(InvalidText)
  \/ Size
  \/ HasMessage
  \/ GetMessage
  \/ GetRecentMessages
  \/ GetAllMessages
  \/ FindMissingDependencies
  \/ \E mutation \in ArrayMutations : CallerMutates(mutation)

SpecQueries == Init /\ [][NextQueries]_vars

\* ------------------------------------------------------- the file backend
\* a history whose storage is the file-based Storage of its channel
InitFile ==
  /\ manager = RLNCredentialsManager
  /\ store = [k \in StorageKeys |-> None]
  /\ backend = Healthy
  /\ storage = FileStorage(ChannelId)
  /\ \E max \in MaxSizes :
       LET h == constructor(storage, backend, store, max) IN
         /\ items = h.items
         /\ messageIndex = h.messageIndex
         /\ maxSize = h.maxSize
  /\ peer = [items |-> <<>>, messageIndex |-> EmptyIndex, maxSize |-> 1]
  /\ ret = [op |-> "constructor", threw |-> FALSE, raw |-> None,
            option |-> "file", ambient |-> FALSE]

ConstructOnFile(max) ==
  LET h == constructor(FileStorage(ChannelId), backend, store, max) IN
    /\ Becomes(h)
    /\ ret' = [op |-> "constructor", threw |-> h.threw,
               raw |-> store[FilePath(ChannelId)],
               option |-> "file", ambient |-> FALSE]
    /\ UNCHANGED <<manager, backend, peer>>

\* what the file may hold when something else wrote or removed it
FileContents ==
  {None, Some(InvalidText), Some(ObjectText), Some(EmptyText)}
    \cup {Some(JSONstringify(records)) : records \in ForeignArrays}

\* the environment: the file is written or removed by something else
ExternalWriteFile(content) ==
  /\ store' = [store EXCEPT ![FilePath(ChannelId)] = content]
  /\ ret' = [op |-> "environment", alive |-> Alive]
  /\ UNCHANGED <<manager, items, messageIndex, maxSize, storage, backend, peer>>

NextFile ==
  \/ \E max \in MaxSizes : ConstructOnFile(max)
  \/ \E messages \in StoreBatches : AddMessages(messages)
  \/ \E be \in {Healthy, Failing} : BackendBecomes(be)
  \/ \E content \in FileContents : ExternalWriteFile(content)

SpecFile == InitFile /\ [][NextFile]_vars

\* ------------------------------------------- one call or several, any order
\* The messages of ret.all, with pairwise distinct ids, are given to the
\* history batch by batch (ret.rest is what is left, ret.calls the number of
\* calls made) and to the peer in one call, in the reverse order.
OfferedMessages ==
  {createMessage(<<LetterChar(i)>>, timestamp, None) :
     i \in 1..MaxOffered, timestamp \in Timestamps}
Offers ==
  {all \in UNION {[1..n -> OfferedMessages] : n \in 1..MaxOffered} :
     \A i, j \in 1..Len(all) : all[i].messageId = all[j].messageId => i = j}

Reverse(seq) == [i \in 1..Len(seq) |-> seq[Len(seq) + 1 - i]]

InitBatching ==
  /\ manager = RLNCredentialsManager
  /\ \E max \in MaxSizes :
       LET h == constructor(None, Healthy, [k \in StorageKeys |-> None], max) IN
         /\ items = h.items
         /\ messageIndex = h.messageIndex
         /\ maxSize = h.maxSize
         /\ peer = [items |-> h.items, messageIndex |-> h.messageIndex,
                    maxSize |-> h.maxSize]
  /\ storage = None
  /\ store = [k \in StorageKeys |-> None]
  /\ backend = Healthy
  /\ \E all \in Offers :
       ret = [op |-> "offer", all |-> all, rest |-> all, calls |-> 0,
              whole |-> FALSE]

\* addMessages with the next n messages that are left
AddNext(n) ==
  LET call == addMessages(History, SubSeq(ret.rest, 1, n)) IN
    /\ n <= Len(ret.rest)
    /\ Becomes(call.history)
    /\ ret' = [ret EXCEPT !.op = "addMessages",
                          !.rest = SubSeq(@, n + 1, Len(@)),
                          !.calls = @ + 1]
    /\ UNCHANGED <<manager, backend, peer>>

\* the peer, a history without storage, gets all the messages in one call
PeerAddAll ==
  LET call == addMessages([PeerHistory EXCEPT !.storage = None],
                          Reverse(ret.all)) IN
    /\ ~ret.whole
    /\ PeerBecomes(call.history)
    /\ ret' = [ret EXCEPT !.whole = TRUE]
    /\ UNCHANGED <<manager, items, messageIndex, maxSize, storage, backend>>

NextBatching ==
  \/ \E n \in 1..MaxOffered : AddNext(n)
  \/ PeerAddAll

SpecBatching == InitBatching /\ [][NextBatching]_vars

\* ------------------------------------------------------------ the codec alone
\* an optional byte array: absent, of length zero, or two bytes
OptionalBytes == {None, Some(<<>>), Some(<<0, 255>>)}
CodecEntries ==
  {[messageId |-> <<LetterChar(2)>>, retrievalHint |-> hint] : hint \in OptionalBytes}
CausalHistories == UNION {[1..n -> CodecEntries] : n \in 0..MaxHistory}
CodecMessages ==
  {ContentMessage(<<LetterChar(1)>>, ChannelId, SenderId, causalHistory,
                  Some(timestamp), bloomFilter, Some(<<timestamp>>), <<>>,
                  retrievalHint) :
     causalHistory \in CausalHistories, timestamp \in Timestamps,
     bloomFilter \in OptionalBytes, retrievalHint \in OptionalBytes}

\* the message under test is items[1]
InitCodec ==
  /\ manager = RLNCredentialsManager
  /\ \E message \in CodecMessages : items = <<message>>
  /\ messageIndex = EmptyIndex
  /\ maxSize = 1
  /\ storage = None
  /\ store = [k \in StorageKeys |-> None]
  /\ backend = Healthy
  /\ peer = [items |-> <<>>, messageIndex |-> EmptyIndex, maxSize |-> 1]
  /\ ret = [op |-> "message"]

\* record = serializeContentMessage(message)
Serialize ==
  /\ ret.op = "message"
  /\ ret' = [op |-> "serialize", record |-> serializeContentMessage(items[1])]
  /\ UNCHANGED <<manager, items, messageIndex, maxSize, storage, store, backend, peer>>

\* the record goes through JSON.stringify and JSON.parse, then
\* message = deserializeContentMessage(record)
Deserialize ==
  /\ ret.op = "serialize"
  /\ ret' = [op |-> "deserialize", record |-> ret.record,
             message |-> deserializeContentMessage(
                           JSONparse(JSONstringify(<<ret.record>>))[1])]
  /\ UNCHANGED <<manager, items, messageIndex, maxSize, storage, store, backend, peer>>

\* again = serializeContentMessage(message)
Reserialize ==
  /\ ret.op = "deserialize"
  /\ IsSome(ret.message)
  /\ ret' = [op |-> "reserialize", record |-> ret.record,
             again |-> serializeContentMessage(Val(ret.message))]
  /\ UNCHANGED <<manager, items, messageIndex, maxSize, storage, store, backend, peer>>

NextCodec ==
  \/ Serialize
  \/ Deserialize
  \/ Reserialize

SpecCodec == InitCodec /\ [][NextCodec]_vars

\* ============================================================== properties
\* the ordering key of the specification: the lamport timestamp as a number,
\* then the message id, character by character
KeyLess(a, b) ==
  \/ Val(a.lamportTimestamp) < Val(b.lamportTimestamp)
  \/ /\ Val(a.lamportTimestamp) = Val(b.lamportTimestamp)
     /\ localeCompare(a.messageId, b.messageId) < 0

ItemIds(messages) == [i \in 1..Len(messages) |-> messages[i].messageId]
Retained(id) == \E i \in 1..Len(items) : items[i].messageId = id
Added == ret.op = "addMessages" /\ ~ret.threw
Key == StorageKey(ChannelId)
Min(a, b) == IF a < b THEN a ELSE b

C2_SortedByNumericKey ==
  \A i, j \in 1..Len(items) : i < j => ~KeyLess(items[j], items[i])

\* C3: whenever addMessages enforces the bound, exactly maxSize messages are
\* retained and every dropped message has an ordering key smaller than every
\* retained one, so the retained ones are those with the largest keys.
C3_EvictsSmallestKeys ==
  [][(ret'.op = "addMessages" /\ ~ret'.threw /\ ret'.removedItems /= <<>>)
       => /\ Len(items') = maxSize'
          /\ \A r \in 1..Len(ret'.removedItems), k \in 1..Len(items') :
               KeyLess(ret'.removedItems[r], items'[k])]_vars

\* C4: no two messages of the retained sequence share a messageId, also when
\* a batch repeats an id or carries a retained id with another timestamp.
C4_UniqueIds ==
  \A i, j \in 1..Len(items) :
    items[i].messageId = items[j].messageId => i = j

C4_Witness ==
  /\ Added
  /\ ret.numDuplicates > 0
  /\ Len(items) = 2

\* C5: the index and the sequence agree: hasMessage(id) holds exactly for the
\* ids of the sequence, getMessage(id) is that message, and an evicted
\* message is reported by neither.
C5_IndexMatchesItems ==
  /\ DOMAIN messageIndex \subseteq MessageIds
  /\ \A id \in MessageIds : hasMessage(messageIndex, id) <=> Retained(id)
  /\ \A id \in MessageIds : ~Retained(id) => getMessage(messageIndex, id) = None
  /\ \A i \in 1..Len(items) :
       getMessage(messageIndex, items[i].messageId) = Some(items[i])

C5_Witness ==
  /\ Added
  /\ ret.removedItems /= <<>>
  /\ Len(items) > 0
  /\ ~hasMessage(messageIndex, ret.removedItems[1].messageId)
  /\ getMessage(messageIndex, ret.removedItems[1].messageId) = None

\* C6: addMessages is all-or-nothing on validation: a batch with a message
\* that lacks a lamport timestamp or a content makes the call throw, wherever
\* that message sits, and a call that throws leaves the sequence, the index
\* and the stored value as they were.
C6_AllOrNothing ==
  /\ [](\A messages \in Batches :
          (\E i \in 1..Len(messages) : ~isContentMessage(messages[i]))
            => /\ addMessages(History, messages).threw
               /\ addMessages(History, messages).history = History)
  /\ [][(ret'.op = "addMessages" /\ ret'.threw)
          => (items' = items /\ messageIndex' = messageIndex /\ store' = store)]_vars

C6_Witness ==
  /\ ret.op = "addMessages"
  /\ ret.threw
  /\ ret.at = 2
  /\ Len(items) > 0
  /\ IsSome(store[Key])

\* C7: findMissingDependencies(entries) is the sub-list of the entries whose
\* messageId is not retained, in input order and with their multiplicity.
C7_MissingDependencies ==
  \A entries \in EntryLists :
    findMissingDependencies(messageIndex, entries)
      = SelectSeq(entries, LAMBDA entry : ~Retained(entry.messageId))

C7_Witness ==
  /\ ret.op = "findMissingDependencies"
  /\ Len(items) = maxSize
  /\ \E entries \in EntryLists :
       /\ Len(entries) = 2
       /\ entries[1] = entries[2]
       /\ findMissingDependencies(messageIndex, entries) = entries
  /\ \E entries \in EntryLists :
       /\ Len(entries) = 2
       /\ Len(findMissingDependencies(messageIndex, entries)) = 1

\* C8: getRecentMessages(count) returns the min(count, size) messages at the
\* end of the retained sequence, in order: none for count = 0, the whole
\* history for count > size.
C8_RecentMessages ==
  ret.op = "getRecentMessages" =>
    \A count \in Counts :
      getRecentMessages(items, count)
        = SubSeq(items, Len(items) - Min(count, Len(items)) + 1, Len(items))

\* C9: after every addMessages call that returns, the stored value decodes
\* to the retained sequence: the same message ids in the same order, the
\* evicted messages absent.
C9_StoredIsRetained ==
  Added =>
    /\ IsSome(store[Key])
    /\ ItemIds(JSONparse(Val(store[Key]))) = ItemIds(items)
    /\ ItemIds(PersistentStorageLoad(Healthy, store, Key).messages) = ItemIds(items)

C9_Witness ==
  /\ Added
  /\ ret.removedItems /= <<>>
  /\ Len(items) = 2

\* C10 as stated: a history constructed on the store of another (same
\* maxSize) starts with the other's messages, message for message.
C10_RestoredEqual ==
  [][(ret'.op = "constructor" /\ maxSize' = maxSize) => items' = items]_vars

ZeroLengthAsAbsent(data) ==
  IF IsSome(data) /\ Len(Val(data)) = 0 THEN None ELSE data

\* a message as the stored record carries it
AsStored(message) ==
  [message EXCEPT
     !.bloomFilter = ZeroLengthAsAbsent(@),
     !.retrievalHint = ZeroLengthAsAbsent(@),
     !.causalHistory =
        [i \in 1..Len(@) |-> [@[i] EXCEPT !.retrievalHint = ZeroLengthAsAbsent(@)]]]

\* C10 (amended): a history constructed on the store of another starts with
\* the other's messages in the same order, equal in every field of the stored
\* record except that an optional binary field of length zero is absent.
C10_RestoredEqualUpToZeroLength ==
  [][(ret'.op = "constructor" /\ maxSize' = maxSize)
       => items' = [i \in 1..Len(items) |-> AsStored(items[i])]]_vars

C10_Witness ==
  /\ ret.op = "constructor"
  /\ Len(items) = 2
  /\ \E i \in 1..Len(items) : IsSome(items[i].bloomFilter)

\* ------------------------------------------------ corrupt and failing stores
\* C11 as stated: constructing on a store whose value under the key is not
\* parseable JSON (the empty string included) or is valid JSON that is no
\* array gives an empty history and leaves the key without a value.
C11_CorruptRemoved ==
  [][(/\ ret'.op = "constructor"
      /\ backend = Healthy
      /\ IsSome(store[Key])
      /\ Val(store[Key]).type \in {"invalid", "empty", "object"})
       => (~ret'.threw /\ Len(items') = 0 /\ store'[Key] = None)]_vars

\* C11 (amended): constructing on a working store whose value under the key
\* is a non-empty text that is not parseable JSON, or valid JSON that is no
\* array, gives an empty history and leaves the key without a value; an empty
\* string gives an empty history too and stays in the store.
C11_NonEmptyCorruptRemoved ==
  [][(/\ ret'.op = "constructor"
      /\ backend = Healthy
      /\ IsSome(store[Key]))
       => /\ Val(store[Key]).type \in {"invalid", "object"}
             => (~ret'.threw /\ Len(items') = 0 /\ store'[Key] = None)
          /\ Val(store[Key]).type = "empty"
             => (~ret'.threw /\ Len(items') = 0 /\ store' = store)]_vars

C11_Witness ==
  /\ ret.op = "constructor"
  /\ ~ret.threw
  /\ backend = Healthy
  /\ ret.raw = Some(ObjectText)
  /\ Len(items) = 0
  /\ store[Key] = None

\* C12: constructing a history never raises, whatever the backend does: a
\* read that fails, a stored value that is garbage, a read and a remove that
\* both fail; construction completes and the history is empty.
C12_ConstructionNeverRaises ==
  /\ ret.op = "constructor" => ~ret.threw
  /\ (ret.op = "constructor"
        /\ (backend.getItemThrows
              \/ (IsSome(ret.raw) /\ Val(ret.raw).type \in {"invalid", "object"})))
       => Len(items) = 0

\* C13: a write that fails never fails addMessages: the call returns and the
\* history holds the batch as if the write had succeeded; the next addMessages
\* whose write succeeds stores the whole retained sequence, the messages of
\* the calls whose write failed included.
C13_FailedWriteTolerated ==
  /\ [](Alive =>
         \A messages \in StoreBatches :
           LET failing == addMessages([History EXCEPT !.backend.setItemThrows = TRUE],
                                      messages)
               writing == addMessages([History EXCEPT !.backend.setItemThrows = FALSE],
                                      messages)
           IN /\ ~failing.threw
              /\ failing.history.items = writing.history.items
              /\ failing.history.messageIndex = writing.history.messageIndex)
  /\ [][(ret'.op = "addMessages" /\ ~ret'.threw /\ ~backend.setItemThrows)
          => /\ IsSome(store'[Key])
             /\ Val(store'[Key]).type = "array"
             /\ ItemIds(JSONparse(Val(store'[Key]))) = ItemIds(items')]_vars

C13_Witness ==
  /\ Added
  /\ ret.unsaved
  /\ ~backend.setItemThrows
  /\ Len(items) = 2
  /\ ret.removedItems /= <<>>
  /\ ItemIds(JSONparse(Val(store[Key]))) = ItemIds(items)

\* C14: when the stored value is a JSON array of which some records do not
\* decode, loading gives exactly the records that decode, in stored order:
\* the siblings of a bad record are restored and the stored value stays.
C14_DecodableRecordsRestored ==
  [][(/\ ret'.op = "constructor"
      /\ ~backend.getItemThrows
      /\ IsSome(store[Key])
      /\ Val(store[Key]).type = "array")
       => LET stored == JSONparse(Val(store[Key]))
              decodable == SelectSeq(stored, LAMBDA record : record \notin BadRecords)
          IN /\ ~ret'.threw
             /\ Len(items') = Len(decodable)
             /\ \A i \in 1..Len(decodable) :
                  /\ items'[i].messageId = decodable[i].messageId
                  /\ BigIntToString(Val(items'[i].lamportTimestamp))
                       = decodable[i].lamportTimestamp
                  /\ bytesToHex(Val(items'[i].content)) = decodable[i].content
             /\ store' = store]_vars

C14_Witness ==
  /\ ret.op = "constructor"
  /\ IsSome(ret.raw)
  /\ Val(ret.raw).type = "array"
  /\ Len(JSONparse(Val(ret.raw))) = 2
  /\ JSONparse(Val(ret.raw))[1] \in BadRecords
  /\ Len(items) = 1
  /\ items[1].messageId = JSONparse(Val(ret.raw))[2].messageId
  /\ store[Key] = ret.raw

C16_ReserializationStable ==
  ret.op = "reserialize" => ret.again = ret.record

\* C17: serialize never gives an empty string for an optional binary field:
\* bloomFilter, retrievalHint and the retrievalHint of each causal-history
\* entry are absent from the record when the source is absent or of length
\* zero, and a non-empty hex string otherwise.
C17_NoEmptyString ==
  ret.op = "serialize" =>
    LET Emitted(data, field) ==
          IF ~IsSome(data) \/ Len(Val(data)) = 0 THEN field = None
          ELSE IsSome(field) /\ Val(field) /= <<>> /\ IsHex(Val(field))
    IN /\ Emitted(items[1].bloomFilter, ret.record.bloomFilter)
       /\ Emitted(items[1].retrievalHint, ret.record.retrievalHint)
       /\ \A i \in 1..Len(items[1].causalHistory) :
            Emitted(items[1].causalHistory[i].retrievalHint,
                    ret.record.causalHistory[i].retrievalHint)

\* ------------------------------------------------------------- re-adding
\* C18: in every reachable state, an addMessages call whose messages all
\* carry ids that are already retained leaves the size as it was.
C18_ReAddingKeepsSize ==
  \A messages \in Batches :
    (/\ Len(messages) > 0
     /\ \A i \in 1..Len(messages) :
          isContentMessage(messages[i]) /\ Retained(messages[i].messageId))
      => size(addMessages(History, messages).history.items) = size(items)

\* C19: a retained message is never rewritten: for every id retained before
\* and after an addMessages call, getMessage(id) has the lamport timestamp
\* and the content it had before, also when the batch carries that id with
\* another timestamp or content.
C19_RetainedNeverRewritten ==
  \A messages \in Batches :
    LET after == addMessages(History, messages).history IN
      \A id \in MessageIds :
        (hasMessage(messageIndex, id) /\ hasMessage(after.messageIndex, id))
          => LET old == Val(getMessage(messageIndex, id))
                 new == Val(getMessage(after.messageIndex, id))
             IN /\ new.lamportTimestamp = old.lamportTimestamp
                /\ new.content = old.content

\* --------------------------------------------------------------- channels
PeerKey == StorageKey(PeerChannelId)

\* C20: two histories of different channels on one store: under every
\* interleaving of their addMessages calls, a call on one changes neither the
\* sequence of the other nor the value under the other's key, and each key
\* holds the messages of its own history only.
C20_ChannelIsolation ==
  /\ [][ret'.op = "addMessages"
          => (peer' = peer /\ store'[PeerKey] = store[PeerKey])]_vars
  /\ [][ret'.op = "peer.addMessages"
          => /\ items' = items
             /\ messageIndex' = messageIndex
             /\ store'[Key] = store[Key]]_vars
  /\ [](/\ IsSome(store[Key])
          => JSONparse(Val(store[Key]))
               = [i \in 1..Len(items) |-> serializeContentMessage(items[i])]
        /\ IsSome(store[PeerKey])
          => JSONparse(Val(store[PeerKey]))
               = [i \in 1..Len(peer.items) |->
                    serializeContentMessage(peer.items[i])])

C20_Witness ==
  /\ ret.op = "peer.addMessages"
  /\ Len(items) = 2
  /\ Len(peer.items) = 2
  /\ ItemIds(items) /= ItemIds(peer.items)
  /\ IsSome(store[Key])
  /\ IsSome(store[PeerKey])
  /\ store[Key] /= store[PeerKey]
  /\ \E i \in 1..2 : items[i].messageId = peer.items[1].messageId

C22_SizeBoundAfterRestore ==
  (ret.op = "constructor" /\ IsSome(ret.raw) /\ Val(ret.raw).type = "array")
    => LET stored == DeserializeAll(JSONparse(Val(ret.raw))) IN
         /\ size(items) <= maxSize
         /\ Len(stored) > maxSize
              => /\ size(items) = maxSize
                 /\ \A i \in 1..Len(stored) :
                      (\A k \in 1..Len(items) : stored[i] /= items[k])
                        => \A k \in 1..Len(items) : KeyLess(stored[i], items[k])

\* ---------------------------------------------------------- storage option
\* C23: with no storage option a history is purely in-memory: addMessages
\* writes nothing anywhere, and a history constructed afterwards with no
\* storage option starts with size 0, whatever was added before.
C23_NoStorageInMemory ==
  /\ [][(ret'.op = "addMessages" /\ storage = None) => store' = store]_vars
  /\ [][(ret'.op = "constructor" /\ ret'.option = "none")
          => /\ storage' = None
             /\ ~ret'.threw
             /\ size(items') = 0
             /\ store' = store]_vars

C23_Witness ==
  /\ ret.op = "constructor"
  /\ ret.option = "none"
  /\ size(items) = 0
  /\ IsSome(store[Key])
  /\ Val(store[Key]).type = "array"
  /\ Len(JSONparse(Val(store[Key]))) = 2

\* C28: PersistentStorage.create gives a backend whenever a store is passed
\* and undefined when none is passed and no localStorage exists; a history
\* constructed with a channel id as storage then is purely in-memory: it
\* reads nothing, writes nothing and raises nothing.
C28_CreateWithoutStore ==
  /\ [](\A ambient \in BOOLEAN :
          /\ IsSome(PersistentStorageCreate(ChannelId, TRUE, ambient))
          /\ IsSome(PersistentStorageCreate(ChannelId, FALSE, ambient)) <=> ambient)
  /\ [][(ret'.op = "constructor" /\ ret'.option = "channelId" /\ ~ret'.ambient)
          => /\ storage' = None
             /\ ~ret'.threw
             /\ size(items') = 0
             /\ store' = store]_vars
  /\ [][(/\ ret.op = "constructor" /\ ret.option = "channelId" /\ ~ret.ambient
         /\ ret'.op = "addMessages")
          => (~ret'.threw /\ store' = store)]_vars

C28_Witness ==
  /\ ret.op = "constructor"
  /\ ret.option = "channelId"
  /\ ~ret.ambient
  /\ ~ret.threw
  /\ storage = None
  /\ backend = Failing
  /\ store[Key] = Some(InvalidText)

\* C24: construction writes nothing: a history constructed on a store that
\* has no value under the key leaves the key absent; the first addMessages
\* call is what writes it, and then it holds exactly the retained messages.
C24_ConstructionWritesNothing ==
  /\ [][(ret'.op = "constructor" /\ ~IsSome(store[Key]))
          => ~IsSome(store'[Key])]_vars
  /\ [][(/\ ~IsSome(store[Key])
         /\ IsSome(storage)
         /\ ~backend.setItemThrows
         /\ ret'.op = "addMessages"
         /\ ~ret'.threw)
          => store'[Key]
               = Some(JSONstringify([i \in 1..Len(items') |->
                                       serializeContentMessage(items'[i])]))]_vars

C24_Witness ==
  /\ ret.op = "constructor"
  /\ ret.option = "channelId"
  /\ ret.ambient
  /\ ~ret.threw
  /\ IsSome(storage)
  /\ backend = Healthy
  /\ ~IsSome(ret.raw)
  /\ ~IsSome(store[Key])

\* ---------------------------------------------------------------- queries
\* C25: getAllMessages returns a copy: adding to the returned list, removing
\* from it or reordering it changes neither the retained sequence nor the
\* index, the size or what a later getAllMessages returns.
C25_DefensiveCopy ==
  /\ [](ret.op = "getAllMessages" => ret.result.elems = items)
  /\ [][ret'.op = "caller"
          => /\ items' = items
             /\ messageIndex' = messageIndex
             /\ size(items') = size(items)
             /\ getAllMessages(items').elems = getAllMessages(items).elems]_vars

C25_Witness ==
  /\ ret.op = "caller"
  /\ Len(items) = 2
  /\ Len(ret.result.elems) = 3
  /\ ret.result.elems[3] = items[1]
  /\ ret.result.elems[1] = createMessage(<<LetterChar(1)>>, 9, None)

QueryOps ==
  {"size", "hasMessage", "getMessage", "getRecentMessages", "getAllMessages",
   "findMissingDependencies"}

\* C30: the queries have no effect: hasMessage, getMessage, getRecentMessages,
\* getAllMessages, findMissingDependencies and size leave the retained
\* sequence, the index and the stored value as they are and neither read nor
\* write the backend, in every reachable state.
C30_QueriesHaveNoEffect ==
  [][ret'.op \in QueryOps
       => /\ items' = items
          /\ messageIndex' = messageIndex
          /\ maxSize' = maxSize
          /\ store' = store]_vars

C30_Witness ==
  /\ ret.op = "getRecentMessages"
  /\ backend = Failing
  /\ store[Key] = Some(InvalidText)
  /\ Len(items) = 2

\* ------------------------------------------------------- the file backend
File == FilePath(ChannelId)

Unparseable(content) ==
  content \in {Some(InvalidText), Some(ObjectText)}

\* C26: with the file backend, a load of a missing file gives an empty list
\* and raises nothing; a load of a file that does not parse gives an empty
\* list, raises nothing and leaves the file as it is; the content stays
\* until an addMessages writes the whole retained sequence over it.
C26_FileLoadTolerant ==
  /\ [][ret'.op = "constructor"
          => /\ ~ret'.threw
             /\ store' = store
             /\ (~IsSome(store[File]) \/ Unparseable(store[File]))
                  => items' = <<>> /\ messageIndex' = EmptyIndex]_vars
  /\ [][Unparseable(store[File]) /\ store'[File] # store[File]
          => \/ ret'.op = "environment"
             \/ /\ ret'.op = "addMessages"
                /\ ~ret'.threw
                /\ store'[File] = FileStorageSave(Healthy, store, File, items')[File]]_vars

C26_Witness ==
  /\ ret.op = "constructor"
  /\ ret.option = "file"
  /\ ret.raw = Some(InvalidText)
  /\ store[File] = Some(InvalidText)
  /\ items = <<>>

\* ------------------------------------------------- more than maxSize at once
\* the number of messages the last call of addMessages was given
Pushed == Len(ret.rest) - Len(ret.rest')

C29_SmallestDuplicateRetained ==
  \A messages \in Batches :
    FirstInvalid(messages) = 0 =>
      LET combinedItems == items \o messages
          after == addMessages(History, messages).history.items
      IN \A id \in MessageIds :
           LET duplicates == {i \in 1..Len(combinedItems) :
                                combinedItems[i].messageId = id}
               kept == {i \in 1..Len(after) : after[i].messageId = id}
           IN Cardinality(duplicates) > 1
                => /\ Cardinality(kept) = 1
                   /\ \A k \in kept :
                        /\ \E i \in duplicates : combinedItems[i] = after[k]
                        /\ \A i \in duplicates :
                             ~KeyLess(combinedItems[i], after[k])

\* ------------------------------------------------------------------ size
DistinctIds(messages) ==
  \A i, j \in 1..Len(messages) :
    messages[i].messageId = messages[j].messageId => i = j

C32_RemovedOnlyOnParseFailure ==
  [][ret'.op = "constructor"
       => /\ store'[Key] # store[Key]
               => /\ ~backend.getItemThrows
                  /\ store[Key] \in {Some(InvalidText), Some(ObjectText)}
          /\ backend.getItemThrows
               => /\ ~ret'.threw
                  /\ items' = <<>>
                  /\ store' = store]_vars

\* ------------------------------------------- two instances on one channel
Saved(messages) ==
  Some(JSONstringify([i \in 1..Len(messages) |->
                        serializeContentMessage(messages[i])]))

IdsOf(messages) == {messages[i].messageId : i \in 1..Len(messages)}

\* C33: two instances bound to the same key of one store: under every
\* interleaving of their addMessages calls the stored value is the retained
\* sequence of the instance whose addMessages completed last; an instance
\* does not read the store after construction, so what it writes holds only
\* messages it retained or was given, none added through the other only.
C33_LastWriterWins ==
  /\ [][(ret'.op = "addMessages" /\ ~ret'.threw)
          => store'[Key] = Saved(items')]_vars
  /\ [][(ret'.op = "twin.addMessages" /\ ~ret'.threw)
          => store'[Key] = Saved(peer'.items)]_vars
  /\ [](\A messages \in ChannelBatches :
          LET mine == addMessages(History, messages).history
              twin == addMessages(TwinHistory, messages).history
          IN /\ mine.store[Key] = Saved(mine.items)
             /\ IdsOf(mine.items) \subseteq IdsOf(items) \cup IdsOf(messages)
             /\ twin.store[Key] = Saved(twin.items)
             /\ IdsOf(twin.items)
                  \subseteq IdsOf(peer.items) \cup IdsOf(messages))

C33_Witness ==
  /\ ret.op = "twin.addMessages"
  /\ store[Key] = Saved(peer.items)
  /\ Len(items) = 2
  /\ Len(peer.items) = 2
  /\ \E i \in 1..2 : items[i].messageId \notin IdsOf(peer.items)

\* ------------------------------------------------------------- eviction
\* C34: eviction is final within one instance: a message the bound has
\* removed is never retained again, whatever addMessages calls follow, also
\* calls that offer the same message again or offer retained ids with other
\* timestamps.
C34_EvictionFinal ==
  \A i \in 1..Len(items) : items[i] \notin ret.evicted

\* ================================================================ rln: Proof
\* C35: for every proofBytes the Proof constructor accepts, proofToBytes of
\* the parsed proof is the original proofBytes.
C35_ProofRoundTrip ==
  ret.op = "proofToBytes" => ret.reconstructedBytes = ret.proofBytes

\* C35 (amended): for every proofBytes the Proof constructor accepts (288
\* bytes or more), the six fields are the consecutive slices of lengths 128,
\* 32, 32, 32, 32, 32 and proofToBytes of the parsed proof is the first 288
\* bytes of proofBytes: the original exactly when it has 288 bytes.
C35_ProofRoundTripOfFirstBytes ==
  ret.op = "proofToBytes" =>
    /\ Len(ret.proofBytes) >= 288
    /\ ret.reconstructedBytes = SubSeq(ret.proofBytes, 1, 288)
    /\ (ret.reconstructedBytes = ret.proofBytes) = (Len(ret.proofBytes) = 288)
    /\ ret.parsedProof.proof = SubSeq(ret.proofBytes, 1, 128)
    /\ ret.parsedProof.merkleRoot = SubSeq(ret.proofBytes, 129, 160)
    /\ ret.parsedProof.externalNullifier = SubSeq(ret.proofBytes, 161, 192)
    /\ ret.parsedProof.shareX = SubSeq(ret.proofBytes, 193, 224)
    /\ ret.parsedProof.shareY = SubSeq(ret.proofBytes, 225, 256)
    /\ ret.parsedProof.nullifier = SubSeq(ret.proofBytes, 257, 288)

C35_Witness ==
  /\ ret.op = "proofToBytes"
  /\ Len(ret.proofBytes) = 289
  /\ Len(ret.reconstructedBytes) = 288

\* ===================================================== rln: generateRLNProof
\* the cases the claim lists, read as they are written: a number that is
\* not within the bounds of the range is outside it
InRange(low, x, high) == ~x.nan /\ low <= x.value /\ x.value <= high
InvalidArguments(args) ==
  \/ dateToEpochBytesLength # 32
  \/ args.idSecretHash # 32
  \/ args.pathElements # MERKLE_TREE_DEPTH
  \/ args.identityPathIndex # MERKLE_TREE_DEPTH
  \/ ~InRange(MIN_RATE, args.rateLimit, MAX_RATE)
  \/ ~InRange(0, args.messageId, args.rateLimit.value - 1)

\* C36: generateRLNProof validates before it computes: if the epoch or
\* idSecretHash is not 32 bytes, pathElements or identityPathIndex has not
\* exactly MERKLE_TREE_DEPTH elements, rateLimit is outside [MIN_RATE,
\* MAX_RATE] or messageId is not in 0 <= messageId < rateLimit, an error is
\* raised and neither the witness calculator nor the proof generator is
\* called.
C36_ValidatesBeforeComputing ==
  (ret.op = "generateRLNProof" /\ InvalidArguments(ret.args))
    => /\ ret.result.threw # ""
       /\ ret.result.calculateWitness = 0
       /\ ret.result.generateRLNProofWithWitness = 0

\* ================================================ rln: RLNCredentialsManager
\* the start calls that are between their guard and their end
Initialising == {i \in StartCalls : manager.calls[i].pc \in Awaits}
Ran == {i \in StartCalls : manager.calls[i].pc \notin {"idle", "returned"}}

C38_FailedStartRetryable ==
  /\ [][\A i \in StartCalls :
          (manager.calls[i].pc \in Awaits /\ manager'.calls[i].pc \notin Awaits)
            => /\ ~manager'.starting
               /\ manager'.calls[i].pc \in {"resolved", "rejected"}
               /\ manager'.calls[i].pc = "rejected" => ~manager'.started
               /\ manager'.calls[i].pc = "resolved" => manager'.started]_vars
  /\ [][\A i \in StartCalls :
          (/\ manager.calls[i].pc = "idle"
           /\ manager'.calls[i].pc # "idle"
           /\ \E j \in StartCalls : manager.calls[j].pc = "rejected"
           /\ Initialising = {}
           /\ ~manager.started)
            => /\ manager'.calls[i].pc = "decryptCredentialsIfNeeded"
               /\ manager'.starting]_vars

C38_Witness ==
  /\ manager.calls[1].pc = "rejected"
  /\ manager.calls[2].pc = "rejected"
  /\ manager.calls[3].pc = "resolved"
  /\ manager.created = 2
  /\ manager.started
  /\ ~manager.starting

\* C39: whenever credentials, pathElements and identityPathIndex are all set,
\* the stored Merkle path was computed for the treeIndex of the credentials
\* in use, under every interleaving of start, useCredentials and the
\* updateMerkleProof calls of RootStored events.
C39_PathOfCurrentCredentials ==
  (/\ IsSome(manager.credentials)
   /\ IsSome(manager.pathElements)
   /\ IsSome(manager.identityPathIndex))
    => /\ manager.pathElements = manager.credentials
       /\ manager.identityPathIndex = manager.credentials

====
